---- MODULE Spec2Model ----
(***************************************************************************)
(* Model of the fluent query builder of proto/query/examples:              *)
(* QueryBuilder (query_builder.py) accumulates filters, sorts and the      *)
(* set-once messages, and build() copies them into a Query.                *)
(* QueryClient (grpc_client.py) sends a Query to the service, one request  *)
(* per call of execute_query and one per page of execute_paginated.        *)
(*                                                                         *)
(* Python values are tagged records (field t names the Python type);       *)
(* protobuf messages that the builder mutates in place (Pagination,        *)
(* Aggregation, QueryOptions) live in a heap and are held by reference, so *)
(* that CopyFrom is a real copy and aliasing is expressible.               *)
(***************************************************************************)
EXTENDS Integers, Sequences, FiniteSets, TLC

VARIABLES
    b,        \* the QueryBuilder instance: its self._* attributes
    heap,     \* address -> message value, for messages held by reference
    built,    \* the Queries returned by build(), oldest first (with ghosts)
    log,      \* ghost: the filter/sort calls made on the builder, in call order
    invoked,  \* ghost: names of the builder methods invoked so far
    ncalls,   \* ghost: number of builder calls made (bounds the run)
    arg,      \* the operand handed to _to_proto_value
    ret,      \* what _to_proto_value returned for arg (NotCalled before)
    cfg,      \* ghost: per family, the projection/search/consistency call made
              \* last and the aggregation calls made, in call order
    client,   \* the QueryClient instance: its attributes
    theQuery, \* the Query object the caller hands to the client
    run,      \* the client call in progress: its position and its locals
    wire,     \* ghost: the requests sent and the responses handed back
    runner    \* run_all.main: its position, its results, what it printed

clientVars == <<client, theQuery, run, wire>>
vars ==
    <<b, heap, built, log, invoked, ncalls, arg, ret, cfg, clientVars, runner>>

(***************************************************************************)
(* Bounds of the model.                                                    *)
(***************************************************************************)
MaxCalls == 2
MaxBuilds == 2

(***************************************************************************)
(* Python operands.                                                        *)
(***************************************************************************)
PyBool(x) == [t |-> "bool", b |-> x]
PyInt(n) == [t |-> "int", i |-> n]
\* a float num/den, kept as an exact fraction
PyFloat(n, d) == [t |-> "float", num |-> n, den |-> d]
PyStr(x) == [t |-> "str", s |-> x]
PyNone == [t |-> "NoneType"]
\* an object of any other class; str is what its __str__ returns
PyOther(c, x) == [t |-> "object", cls |-> c, str |-> x]
\* datetime.datetime; tz is "naive" or "aware", off the UTC offset in minutes
PyDatetime(y, mo, d, h, mi, sec, us, tzk, o) ==
    [t |-> "datetime", year |-> y, month |-> mo, day |-> d, hour |-> h,
     minute |-> mi, second |-> sec, microsecond |-> us, tz |-> tzk, off |-> o]

\* isinstance(value, cls): bool is a subclass of int in Python
IsInstance(value, cls) ==
    CASE cls = "bool" -> value.t = "bool"
      [] cls = "int" -> value.t \in {"int", "bool"}
      [] cls = "float" -> value.t = "float"
      [] cls = "str" -> value.t = "str"
      [] cls = "datetime" -> value.t = "datetime"
      [] OTHER -> FALSE

(***************************************************************************)
(* google.protobuf.struct_pb2.Value: a oneof of four kinds.                *)
(***************************************************************************)
BoolValue(x) == [kind |-> "bool_value", b |-> x]
\* number_value is a double: the fraction num/den
NumberValue(n, d) == [kind |-> "number_value", num |-> n, den |-> d]
StringValue(x) == [kind |-> "string_value", s |-> x]
NullValue == [kind |-> "null_value"]
ValueKinds == {"bool_value", "number_value", "string_value", "null_value"}

\* float(value) for the int-like operands accepted by number_value
AsDouble(value) ==
    CASE value.t = "bool" -> NumberValue(IF value.b THEN 1 ELSE 0, 1)
      [] value.t = "int" -> NumberValue(value.i, 1)
      [] value.t = "float" -> NumberValue(value.num, value.den)

DigitChars == <<"0", "1", "2", "3", "4", "5", "6", "7", "8", "9">>
Digit(n) == DigitChars[n + 1]
\* "%02d", "%04d", "%06d"
Pad2(n) == Digit((n \div 10) % 10) \o Digit(n % 10)
Pad4(n) == Pad2(n \div 100) \o Pad2(n % 100)
Pad6(n) == Pad2(n \div 10000) \o Pad4(n % 10000)

\* datetime.utcoffset() rendered by isoformat(): "+HH:MM" / "-HH:MM"
FormatOffset(off) ==
    LET a == IF off < 0 THEN -off ELSE off
    IN  (IF off < 0 THEN "-" ELSE "+") \o Pad2(a \div 60) \o ":" \o Pad2(a % 60)

\* datetime.isoformat(): date, "T", time, microseconds when non-zero,
\* and the UTC offset when the datetime is aware
IsoFormat(dt) ==
    Pad4(dt.year) \o "-" \o Pad2(dt.month) \o "-" \o Pad2(dt.day) \o "T"
        \o Pad2(dt.hour) \o ":" \o Pad2(dt.minute) \o ":" \o Pad2(dt.second)
        \o (IF dt.microsecond # 0 THEN "." \o Pad6(dt.microsecond) ELSE "")
        \o (IF dt.tz = "aware" THEN FormatOffset(dt.off) ELSE "")

\* QueryBuilder._to_proto_value with the bool test after the int test
ToProtoValue_IntFirst(value) ==
    IF IsInstance(value, "int") THEN AsDouble(value)
    ELSE IF IsInstance(value, "bool") THEN BoolValue(value.b)
    ELSE IF IsInstance(value, "float") THEN AsDouble(value)
    ELSE IF IsInstance(value, "str") THEN StringValue(value.s)
    ELSE IF IsInstance(value, "datetime") THEN StringValue(IsoFormat(value) \o "Z")
    ELSE IF value = PyNone THEN NullValue
    ELSE StringValue(value.str)

\* QueryBuilder._to_proto_value
ToProtoValue(value) ==
    IF IsInstance(value, "bool") THEN BoolValue(value.b)
    ELSE IF IsInstance(value, "int") THEN AsDouble(value)
    ELSE IF IsInstance(value, "float") THEN AsDouble(value)
    ELSE IF IsInstance(value, "str") THEN StringValue(value.s)
    ELSE IF IsInstance(value, "datetime") THEN StringValue(IsoFormat(value) \o "Z")
    ELSE IF value = PyNone THEN NullValue
    ELSE StringValue(value.str)

(***************************************************************************)
(* Protobuf messages of geniustechspace.query.api.v1 as the builder makes  *)
(* them. A field that was never set holds its proto3 default.              *)
(***************************************************************************)
None == [kind |-> "None"]       \* Python None
Ref(a) == [kind |-> "ref", addr |-> a]  \* a reference to the message at heap address a
Unset == [kind |-> "unset"]     \* a message or oneof field that is not set
Free == [kind |-> "free"]       \* a heap cell that holds no message

\* filter_pb2.Condition(field=, operator=, value=, values=, case_sensitive=)
Condition(field, operator, value, values, case_sensitive) ==
    [field |-> field, operator |-> operator, value |-> value,
     values |-> values, case_sensitive |-> case_sensitive]
\* filter_pb2.Filter(condition=...)
ConditionFilter(c) == [kind |-> "condition", condition |-> c]
\* filter_pb2.Filter(and_=filter_pb2.AndFilter(conditions=...)): the
\* repeated field receives a copy of each element, in list order
AndFilter(conditions) == [kind |-> "and_", conditions |-> conditions]

\* sort_pb2.Sort(field=, direction=), nulls left at its default
Sort(field, direction) ==
    [field |-> field, direction |-> direction,
     nulls |-> "NULL_ORDERING_UNSPECIFIED"]

\* query_pb2.Projection(include=) / (exclude=)
Projection(include, exclude) ==
    [kind |-> "projection", include |-> include, exclude |-> exclude]

\* search_pb2.Search(...)
Search(query, type, fields, vector_field, embedding, min_score) ==
    [kind |-> "search", query |-> query, type |-> type, fields |-> fields,
     vector_field |-> vector_field, embedding |-> embedding,
     min_score |-> min_score]

\* pagination_pb2.Pagination()
Pagination(page_size) ==
    [kind |-> "pagination", page_size |-> page_size, cursor |-> "", offset |-> 0]
\* aggregation_pb2.Aggregation()
Aggregation ==
    [kind |-> "aggregation", group_by |-> <<>>, aggregates |-> <<>>]
\* aggregation_pb2.Aggregate(function=, alias=)
Aggregate(function, alias) ==
    [function |-> function, field |-> "", alias |-> alias]
\* query_pb2.QueryOptions()
QueryOptions ==
    [kind |-> "options", timeout_ms |-> 0, explain |-> FALSE,
     count_total |-> FALSE, consistency |-> "CONSISTENCY_LEVEL_UNSPECIFIED"]

\* query_pb2.Query(entity=...): every other field unset; the message fields
\* pagination, aggregation and options hold Unset or a Ref into the heap
Query(entity) ==
    [entity |-> entity, filter |-> Unset, sort |-> <<>>, projection |-> Unset,
     pagination |-> Unset, aggregation |-> Unset, search |-> Unset,
     relation |-> <<>>, options |-> Unset]

(***************************************************************************)
(* The heap. The builder's own messages sit at "b.<field>", the messages   *)
(* of the i-th built Query at "q<i>.<field>".                              *)
(***************************************************************************)
RefFields == {"pagination", "aggregation", "options"}
BuilderAddr(f) == "b." \o f
QueryAddr(i, f) == "q" \o Digit(i) \o "." \o f
Addrs ==
    {BuilderAddr(f) : f \in RefFields}
        \cup {QueryAddr(i, f) : i \in 1..MaxBuilds, f \in RefFields}

\* dst.CopyFrom(src) sharing src instead of copying it
CopyFrom_Alias(h, dst, src) == [ref |-> Ref(src), heap |-> h]

\* dst.CopyFrom(src): dst becomes a message of its own, equal to src
CopyFrom(h, dst, src) ==
    [ref |-> Ref(dst), heap |-> [h EXCEPT ![dst] = h[src]]]

(***************************************************************************)
(* QueryBuilder.__init__                                                   *)
(***************************************************************************)
NewBuilder(entity) ==
    [_entity |-> entity, _filters |-> <<>>, _sorts |-> <<>>,
     _projection |-> None, _pagination |-> None, _aggregation |-> None,
     _search |-> None, _relations |-> <<>>, _options |-> None]

(***************************************************************************)
(* Truth tests of build() and of the setters. A Python list is true when   *)
(* non-empty; a protobuf message object defines neither __bool__ nor       *)
(* __len__, so an attribute is false only while it is still None.          *)
(***************************************************************************)
ListTruthy(l) == Len(l) # 0
AttrTruthy(x) == x # None

(***************************************************************************)
(* Inputs of the filter and sort methods.                                  *)
(***************************************************************************)
Fields == {"status"}
Operands == {PyStr("active"), PyInt(18)}
Thresholds == {PyInt(18)}
OperandLists == {<<PyStr("admin"), PyStr("owner")>>}
Patterns == {"adm"}
SortFields == {"created_at", "name"}
NullsArgs == {"default", "first", "last"}

\* the ghost bookkeeping of one filter or sort call named m
Logged(m, field, operands) ==
    /\ ncalls < MaxCalls
    /\ log' = Append(log, [m |-> m, field |-> field, operands |-> operands])
    /\ invoked' = invoked \cup {m}
    /\ ncalls' = ncalls + 1
    /\ UNCHANGED <<heap, built, arg, ret, cfg, clientVars, runner>>

\* QueryBuilder._add_condition putting the new filter first
AddCondition_Prepend(filters, field, operator, value) ==
    <<ConditionFilter(
        Condition(field, operator, ToProtoValue(value), <<>>, FALSE))>>
        \o filters

\* QueryBuilder._add_condition leaving out the value of a None operand
AddCondition_SkipNull(filters, field, operator, value) ==
    Append(filters,
           ConditionFilter(
               Condition(field, operator,
                         IF value = PyNone THEN Unset ELSE ToProtoValue(value),
                         <<>>, FALSE)))

\* QueryBuilder._add_condition: the new value of self._filters
AddCondition(filters, field, operator, value) ==
    Append(filters,
           ConditionFilter(
               Condition(field, operator, ToProtoValue(value), <<>>, FALSE)))

\* [self._to_proto_value(v) for v in values]
ToProtoValues(values) == [i \in 1..Len(values) |-> ToProtoValue(values[i])]

\* a method that goes through _add_condition
ConditionCall(m, operator, field, value) ==
    /\ b' = [b EXCEPT !._filters = AddCondition(@, field, operator, value)]
    /\ Logged(m, field, <<value>>)

filter_eq ==
    \E field \in Fields, value \in Operands \cup {PyNone} :
        ConditionCall("filter_eq", "OPERATOR_EQ", field, value)
filter_ne ==
    \E field \in Fields, value \in Operands :
        ConditionCall("filter_ne", "OPERATOR_NE", field, value)
filter_lt ==
    \E field \in Fields, value \in Thresholds :
        ConditionCall("filter_lt", "OPERATOR_LT", field, value)
filter_lte ==
    \E field \in Fields, value \in Thresholds :
        ConditionCall("filter_lte", "OPERATOR_LTE", field, value)
filter_gt ==
    \E field \in Fields, value \in Thresholds :
        ConditionCall("filter_gt", "OPERATOR_GT", field, value)
filter_gte ==
    \E field \in Fields, value \in Thresholds :
        ConditionCall("filter_gte", "OPERATOR_GTE", field, value)
filter_starts_with ==
    \E field \in Fields, value \in Patterns :
        ConditionCall("filter_starts_with", "OPERATOR_STARTS_WITH", field,
                      PyStr(value))
filter_ends_with ==
    \E field \in Fields, value \in Patterns :
        ConditionCall("filter_ends_with", "OPERATOR_ENDS_WITH", field,
                      PyStr(value))
filter_matches ==
    \E field \in Fields, pattern \in Patterns :
        ConditionCall("filter_matches", "OPERATOR_MATCHES", field,
                      PyStr(pattern))
filter_array_contains ==
    \E field \in Fields, value \in Operands :
        ConditionCall("filter_array_contains", "OPERATOR_ARRAY_CONTAINS",
                      field, value)

filter_in ==
    \E field \in Fields, values \in OperandLists :
        /\ b' = [b EXCEPT !._filters =
                    Append(@, ConditionFilter(
                        Condition(field, "OPERATOR_IN", Unset,
                                  ToProtoValues(values), FALSE)))]
        /\ Logged("filter_in", field, values)
filter_not_in ==
    \E field \in Fields, values \in OperandLists :
        /\ b' = [b EXCEPT !._filters =
                    Append(@, ConditionFilter(
                        Condition(field, "OPERATOR_NOT_IN", Unset,
                                  ToProtoValues(values), FALSE)))]
        /\ Logged("filter_not_in", field, values)
\* the operand is stored as given (a str), not through _to_proto_value
filter_contains ==
    \E field \in Fields, value \in Patterns, case_sensitive \in BOOLEAN :
        /\ b' = [b EXCEPT !._filters =
                    Append(@, ConditionFilter(
                        Condition(field, "OPERATOR_CONTAINS",
                                  StringValue(value), <<>>, case_sensitive)))]
        /\ Logged("filter_contains", field, <<PyStr(value)>>)
filter_is_null ==
    \E field \in Fields :
        /\ b' = [b EXCEPT !._filters =
                    Append(@, ConditionFilter(
                        Condition(field, "OPERATOR_IS_NULL", Unset, <<>>,
                                  FALSE)))]
        /\ Logged("filter_is_null", field, <<>>)
filter_is_not_null ==
    \E field \in Fields :
        /\ b' = [b EXCEPT !._filters =
                    Append(@, ConditionFilter(
                        Condition(field, "OPERATOR_IS_NOT_NULL", Unset, <<>>,
                                  FALSE)))]
        /\ Logged("filter_is_not_null", field, <<>>)

(***************************************************************************)
(* Sorting methods.                                                        *)
(***************************************************************************)
\* QueryBuilder._add_sort keeping one entry per field
AddSort_Dedup(sorts, field, direction, nulls) ==
    IF \E i \in 1..Len(sorts) : sorts[i].field = field THEN sorts
    ELSE Append(sorts, Sort(field, direction))

\* QueryBuilder._add_sort: the new value of self._sorts
AddSort(sorts, field, direction, nulls) ==
    LET sort == Sort(field, direction)
        sort2 == IF nulls = "first"
                    THEN [sort EXCEPT !.nulls = "NULL_ORDERING_NULLS_FIRST"]
                 ELSE IF nulls = "last"
                    THEN [sort EXCEPT !.nulls = "NULL_ORDERING_NULLS_LAST"]
                 ELSE sort
    IN  Append(sorts, sort2)

sort_asc ==
    \E field \in SortFields, nulls \in NullsArgs :
        /\ b' = [b EXCEPT !._sorts =
                    AddSort(@, field, "SORT_DIRECTION_ASC", nulls)]
        /\ Logged("sort_asc", field, <<PyStr(nulls)>>)
sort_desc ==
    \E field \in SortFields, nulls \in NullsArgs :
        /\ b' = [b EXCEPT !._sorts =
                    AddSort(@, field, "SORT_DIRECTION_DESC", nulls)]
        /\ Logged("sort_desc", field, <<PyStr(nulls)>>)

(***************************************************************************)
(* Inputs of the projection, pagination, search, aggregation and option    *)
(* methods.                                                                *)
(***************************************************************************)
Entities == {"users", ""}
FieldLists == {<<"id", "name">>}
PageSizes == {0, 20}
Cursors == {"c1"}
Offsets == {10}
SearchQueries == {"wireless"}
SearchFields == {<<"name">>}
GroupFields == {<<"category">>}
AggFields == {"amount"}
\* an alias argument; "" stands for the falsy ones (None and "")
AliasArgs == {"", "total"}
DefaultAlias == {""}
Timeouts == {5000}
Levels == {"eventual", "strong", "linearizable", "serializable"}

\* the ghost bookkeeping of one call of method m that is no filter or sort
Noted(m) ==
    /\ ncalls < MaxCalls
    /\ invoked' = invoked \cup {m}
    /\ ncalls' = ncalls + 1
    /\ UNCHANGED <<log, built, arg, ret, cfg, clientVars, runner>>

\* the same for a projection, search or aggregation method, whose call is
\* remembered: the last one of the family, every one for the aggregation
Recorded(m, family, call) ==
    /\ ncalls < MaxCalls
    /\ invoked' = invoked \cup {m}
    /\ ncalls' = ncalls + 1
    /\ cfg' = [cfg EXCEPT ![family] =
                  IF family = "aggregation" THEN Append(@, call) ELSE <<call>>]
    /\ UNCHANGED <<log, built, arg, ret, clientVars, runner>>

\* a setter that makes a fresh message on every call
SetMessageField_Fresh(self, h, attr, name, fresh, f, v) ==
    LET self1 == [self EXCEPT ![attr] = Ref(BuilderAddr(name))]
        h1 == [h EXCEPT ![BuilderAddr(name)] = fresh]
    IN  [self |-> self1, heap |-> [h1 EXCEPT ![self1[attr].addr][f] = v]]

\* "if not self.<attr>: self.<attr> = <fresh>" followed by
\* "self.<attr>.<f> = v", for the message attribute kept at "b.<name>"
SetMessageField(self, h, attr, name, fresh, f, v) ==
    LET made == ~AttrTruthy(self[attr])
        self1 == IF made THEN [self EXCEPT ![attr] = Ref(BuilderAddr(name))]
                 ELSE self
        h1 == IF made THEN [h EXCEPT ![BuilderAddr(name)] = fresh] ELSE h
    IN  [self |-> self1, heap |-> [h1 EXCEPT ![self1[attr].addr][f] = v]]

\* a setter of one field of a message attribute
Setter(m, attr, name, fresh, f, v) ==
    LET r == SetMessageField(b, heap, attr, name, fresh, f, v)
    IN  /\ b' = r.self
        /\ heap' = r.heap
        /\ Noted(m)

\* exclude that keeps the include list of the projection it finds
exclude_Merge ==
    \E fields \in FieldLists :
        /\ b' = [b EXCEPT !._projection =
                    Projection(IF @ = None THEN <<>> ELSE @.include, fields)]
        /\ UNCHANGED heap
        /\ Recorded("exclude", "projection",
                    [m |-> "exclude", fields |-> fields])

\* Projection methods: each replaces self._projection
include ==
    \E fields \in FieldLists :
        /\ b' = [b EXCEPT !._projection = Projection(fields, <<>>)]
        /\ UNCHANGED heap
        /\ Recorded("include", "projection",
                    [m |-> "include", fields |-> fields])
exclude ==
    \E fields \in FieldLists :
        /\ b' = [b EXCEPT !._projection = Projection(<<>>, fields)]
        /\ UNCHANGED heap
        /\ Recorded("exclude", "projection",
                    [m |-> "exclude", fields |-> fields])

\* Pagination methods
limit ==
    \E page_size \in PageSizes :
        Setter("limit", "_pagination", "pagination", Pagination(0),
               "page_size", page_size)
cursor ==
    \E c \in Cursors :
        Setter("cursor", "_pagination", "pagination", Pagination(0),
               "cursor", c)
offset ==
    \E o \in Offsets :
        Setter("offset", "_pagination", "pagination", Pagination(0),
               "offset", o)

\* Search methods: each replaces self._search
search_fulltext ==
    \E query \in SearchQueries, fields \in SearchFields :
        /\ b' = [b EXCEPT !._search =
                    Search(query, "SEARCH_TYPE_FULL_TEXT", fields, "", <<>>, 0)]
        /\ UNCHANGED heap
        /\ Recorded("search_fulltext", "search",
                    [m |-> "search_fulltext", query |-> query,
                     fields |-> fields])
search_semantic ==
    \E query \in {""} :
        /\ b' = [b EXCEPT !._search =
                    Search(query, "SEARCH_TYPE_SEMANTIC", <<>>, "embedding",
                           <<>>, 0)]
        /\ UNCHANGED heap
        /\ Recorded("search_semantic", "search",
                    [m |-> "search_semantic", query |-> query])

\* Aggregation methods
group_by ==
    \E fields \in GroupFields :
        LET made == ~AttrTruthy(b._aggregation)
            h1 == IF made
                  THEN [heap EXCEPT ![BuilderAddr("aggregation")] = Aggregation]
                  ELSE heap
        IN  /\ b' = [b EXCEPT !._aggregation = Ref(BuilderAddr("aggregation"))]
            /\ heap' = [h1 EXCEPT ![BuilderAddr("aggregation")].group_by =
                           @ \o fields]
            /\ Recorded("group_by", "aggregation",
                        [m |-> "group_by", fields |-> fields])

\* _add_aggregate that replaces the aggregates by the new one
AddAggregate_Replace(aggregation, function, field, alias) ==
    LET agg == Aggregate(function, IF alias # "" THEN alias ELSE "result")
        agg2 == IF field # "" THEN [agg EXCEPT !.field = field] ELSE agg
    IN  [aggregation EXCEPT !.aggregates = <<agg2>>]

\* QueryBuilder._add_aggregate: the new content of the aggregation message
AddAggregate(aggregation, function, field, alias) ==
    LET agg == Aggregate(function, IF alias # "" THEN alias ELSE "result")
        agg2 == IF field # "" THEN [agg EXCEPT !.field = field] ELSE agg
    IN  [aggregation EXCEPT !.aggregates = Append(@, agg2)]

\* a method that goes through _add_aggregate
AggregateCall(m, function, field, alias) ==
    LET made == ~AttrTruthy(b._aggregation)
        h1 == IF made
              THEN [heap EXCEPT ![BuilderAddr("aggregation")] = Aggregation]
              ELSE heap
    IN  /\ b' = [b EXCEPT !._aggregation = Ref(BuilderAddr("aggregation"))]
        /\ heap' = [h1 EXCEPT ![BuilderAddr("aggregation")] =
                       AddAggregate(@, function, field, alias)]
        /\ Recorded(m, "aggregation",
                    [m |-> m, function |-> function, field |-> field,
                     alias |-> alias])

\* "alias or <default>"
AliasOr(alias, default) == IF alias # "" THEN alias ELSE default

count ==
    \E alias \in AliasArgs \cup {"count"} :
        AggregateCall("count", "AGGREGATE_FUNCTION_COUNT", "", alias)
sum ==
    \E field \in AggFields, alias \in AliasArgs :
        AggregateCall("sum", "AGGREGATE_FUNCTION_SUM", field,
                      AliasOr(alias, "sum_" \o field))
avg ==
    \E field \in AggFields, alias \in DefaultAlias :
        AggregateCall("avg", "AGGREGATE_FUNCTION_AVG", field,
                      AliasOr(alias, "avg_" \o field))
min ==
    \E field \in AggFields, alias \in DefaultAlias :
        AggregateCall("min", "AGGREGATE_FUNCTION_MIN", field,
                      AliasOr(alias, "min_" \o field))
max ==
    \E field \in AggFields, alias \in DefaultAlias :
        AggregateCall("max", "AGGREGATE_FUNCTION_MAX", field,
                      AliasOr(alias, "max_" \o field))

\* Options methods
timeout ==
    \E timeout_ms \in Timeouts :
        Setter("timeout", "_options", "options", QueryOptions,
               "timeout_ms", timeout_ms)
explain ==
    \E enabled \in BOOLEAN :
        Setter("explain", "_options", "options", QueryOptions,
               "explain", enabled)
count_total ==
    \E enabled \in BOOLEAN :
        Setter("count_total", "_options", "options", QueryOptions,
               "count_total", enabled)

\* a level map whose default is the unspecified level
LevelMap_Unspecified(level) ==
    CASE level = "eventual" -> "CONSISTENCY_LEVEL_EVENTUAL"
      [] level = "strong" -> "CONSISTENCY_LEVEL_STRONG"
      [] level = "linearizable" -> "CONSISTENCY_LEVEL_LINEARIZABLE"
      [] OTHER -> "CONSISTENCY_LEVEL_UNSPECIFIED"

\* level_map.get(level, query_pb2.CONSISTENCY_LEVEL_STRONG)
LevelMap(level) ==
    CASE level = "eventual" -> "CONSISTENCY_LEVEL_EVENTUAL"
      [] level = "strong" -> "CONSISTENCY_LEVEL_STRONG"
      [] level = "linearizable" -> "CONSISTENCY_LEVEL_LINEARIZABLE"
      [] OTHER -> "CONSISTENCY_LEVEL_STRONG"

consistency ==
    \E level \in Levels :
        LET r == SetMessageField(b, heap, "_options", "options", QueryOptions,
                                 "consistency", LevelMap(level))
        IN  /\ b' = r.self
            /\ heap' = r.heap
            /\ Recorded("consistency", "consistency",
                        [m |-> "consistency", level |-> level])

(***************************************************************************)
(* QueryBuilder.build                                                      *)
(***************************************************************************)
DefaultPageSize == 50

\* "Combine filters with AND" wrapping a single filter too
CombineFilters_AlwaysAnd(filters) ==
    IF ListTruthy(filters) THEN AndFilter(filters) ELSE Unset

\* "Combine filters with AND": the value of query.filter
CombineFilters(filters) ==
    IF ListTruthy(filters)
    THEN IF Len(filters) = 1 THEN filters[1] ELSE AndFilter(filters)
    ELSE Unset

\* query.sort.extend(self._sorts)
ExtendSorts(sort, sorts) == IF ListTruthy(sorts) THEN sort \o sorts ELSE sort

\* "Add pagination" with the default injected whenever none was set
BuildPagination_AlwaysDefault(self, h, n) ==
    IF AttrTruthy(self._pagination)
    THEN CopyFrom(h, QueryAddr(n, "pagination"), self._pagination.addr)
    ELSE [ref |-> Ref(QueryAddr(n, "pagination")),
          heap |-> [h EXCEPT ![QueryAddr(n, "pagination")] =
                       Pagination(DefaultPageSize)]]

\* "Add pagination": the caller's, else the default unless aggregating
BuildPagination(self, h, n) ==
    IF AttrTruthy(self._pagination)
    THEN CopyFrom(h, QueryAddr(n, "pagination"), self._pagination.addr)
    ELSE IF ~AttrTruthy(self._aggregation)
    THEN [ref |-> Ref(QueryAddr(n, "pagination")),
          heap |-> [h EXCEPT ![QueryAddr(n, "pagination")] =
                       Pagination(DefaultPageSize)]]
    ELSE [ref |-> Unset, heap |-> h]

\* "if self.<attr>: query.<name>.CopyFrom(self.<attr>)" with an empty
\* message put in when the attribute is None
BuildMessage_AlwaysSet(self, h, n, attr, name) ==
    IF AttrTruthy(self[attr])
    THEN CopyFrom(h, QueryAddr(n, name), self[attr].addr)
    ELSE [ref |-> Ref(QueryAddr(n, name)),
          heap |-> [h EXCEPT ![QueryAddr(n, name)] =
                       IF name = "options" THEN QueryOptions ELSE Aggregation]]

\* "if self.<attr>: query.<name>.CopyFrom(self.<attr>)" for a message
\* attribute held by reference (aggregation, options)
BuildMessage(self, h, n, attr, name) ==
    IF AttrTruthy(self[attr])
    THEN CopyFrom(h, QueryAddr(n, name), self[attr].addr)
    ELSE [ref |-> Unset, heap |-> h]

\* the same for an attribute that is replaced, never mutated (projection,
\* search): the copy is the value
BuildValue(x) == IF AttrTruthy(x) THEN x ELSE Unset

\* build(): the n-th Query returned, and the heap holding its messages
BuildQuery(self, h, n) ==
    LET p == BuildPagination(self, h, n)
        a == BuildMessage(self, p.heap, n, "_aggregation", "aggregation")
        o == BuildMessage(self, a.heap, n, "_options", "options")
    IN  [query |->
            [Query(self._entity) EXCEPT
                !.filter = CombineFilters(self._filters),
                !.sort = ExtendSorts(@, self._sorts),
                !.projection = BuildValue(self._projection),
                !.pagination = p.ref,
                !.aggregation = a.ref,
                !.search = BuildValue(self._search),
                !.relation = IF ListTruthy(self._relations)
                             THEN @ \o self._relations ELSE @,
                !.options = o.ref],
         heap |-> o.heap]

\* build() emptying the accumulated lists once the Query is made
AfterBuild_Reset(self) == [self EXCEPT !._filters = <<>>, !._sorts = <<>>,
                                       !._projection = None, !._search = None,
                                       !._pagination = None, !._options = None,
                                       !._aggregation = None]

\* the builder after build(): build() assigns no attribute of self
AfterBuild(self) == self

\* the message a Query field refers to, Unset when the field is not set
Deref(h, r) == IF r = Unset THEN Unset ELSE h[r.addr]

\* a Query by value: its message fields replaced by the messages themselves
Deep(q, h) ==
    [q EXCEPT !.pagination = Deref(h, @), !.aggregation = Deref(h, @),
              !.options = Deref(h, @)]

Build ==
    /\ Len(built) < MaxBuilds
    /\ LET n == Len(built) + 1
           r == BuildQuery(b, heap, n)
       IN  /\ heap' = r.heap
           /\ built' = Append(built,
                  [query |-> r.query,             \* the Query returned
                   snap |-> Deep(r.query, r.heap), \* ghost: its value then
                   nlog |-> Len(log),             \* ghost: calls logged then
                   ncalls |-> ncalls,             \* ghost: calls made then
                   invoked |-> invoked,           \* ghost: methods invoked then
                   cfg |-> cfg])                  \* ghost: calls remembered then
    /\ b' = AfterBuild(b)
    /\ UNCHANGED <<log, invoked, ncalls, arg, ret, cfg, clientVars, runner>>

(***************************************************************************)
(* Operands of _to_proto_value.                                            *)
(***************************************************************************)
NotCalled == [kind |-> "not_called"]
Hours == {0, 9, 23}
Minutes == {0, 30}
Microseconds == {0, 250000}
\* UTC offsets in minutes: UTC, +05:30, -08:00
UtcOffsets == {0, 330, -480}
Datetimes ==
    {PyDatetime(2024, 1, 15, h, mi, 0, us, "naive", 0) :
        h \in Hours, mi \in Minutes, us \in Microseconds}
    \cup {PyDatetime(2024, 1, 15, h, mi, 0, us, "aware", o) :
        h \in Hours, mi \in Minutes, us \in Microseconds, o \in UtcOffsets}
PyValues ==
    {PyBool(x) : x \in BOOLEAN}
        \cup {PyInt(n) : n \in {-1, 0, 1, 7, 18}}
        \cup {PyFloat(314, 100), PyFloat(0, 1), PyFloat(-5, 10)}
        \cup {PyStr(x) : x \in {"", "x", "active", "True", "18"}}
        \cup {PyNone}
        \cup {PyOther("list", "[1, 2]"), PyOther("Decimal", "9.99"),
              PyOther("date", "2024-01-15")}
        \cup Datetimes

\* one call _to_proto_value(arg)
to_proto_value ==
    /\ ret = NotCalled
    /\ ret' = ToProtoValue(arg)
    /\ UNCHANGED <<b, heap, built, log, invoked, ncalls, arg, cfg, clientVars, runner>>

(***************************************************************************)
(* QueryClient (grpc_client.py).                                           *)
(*                                                                         *)
(* The caller's Query is held by value in the variable theQuery; a dictionary *)
(* is a record whose fields are the keys it has.  What the service answers *)
(* to a request is an input: a response message or a transport error.      *)
(***************************************************************************)
MaxPages == 2

Hosts == {"localhost:50051"}
Tenants == {"tenant_123"}
ClientTimeouts == {30}

Channel(host) == [kind |-> "channel", host |-> host, open |-> TRUE]
Stub == [kind |-> "stub"]

\* QueryClient.__init__
NewClient(host, tenant_id, timeout_s) ==
    [host |-> host, tenant_id |-> tenant_id, timeout |-> timeout_s,
     _channel |-> None, _stub |-> None]

\* truth value of a Python operand ("if cursor", "not pagination.get(..)")
PyTruthy(v) ==
    CASE v.t = "NoneType" -> FALSE
      [] v.t = "bool" -> v.b
      [] v.t = "str" -> v.s # ""
      [] v.t = "int" -> v.i # 0
      [] OTHER -> TRUE

\* dictionaries
EmptyDict == [k \in {} |-> PyNone]
DictGet(d, k, default) == IF k \in DOMAIN d THEN d[k] ELSE default

\* the response message of the service: rows and the pagination echo
PageInfo(total_count, page_size, has_more, next_cursor) ==
    [total_count |-> total_count, page_size |-> page_size,
     has_more |-> has_more, next_cursor |-> next_cursor]
Response(results, pagination) ==
    [kind |-> "response", results |-> results, pagination |-> pagination,
     explain |-> Unset]

\* the explain block of a response, and a response that carries one
ExplainBlock(estimated_cost, recommendations) ==
    [estimated_cost |-> estimated_cost, recommendations |-> recommendations]
Explained(response, block) == [response EXCEPT !.explain = block]

\* a transport error: grpc.RpcError with its status code and details
RpcError(code, details) ==
    [kind |-> "RpcError", code |-> code, details |-> details]
\* the error of a client that has no stub
RuntimeError(message) == [kind |-> "RuntimeError", message |-> message]

\* json_format.MessageToDict: lowerCamelCase keys, and a field that holds
\* its default value (0, false, "", no message) is left out
PageInfoToDict(p) ==
    (IF p.total_count # 0 THEN "totalCount" :> PyInt(p.total_count)
     ELSE EmptyDict)
    @@ (IF p.page_size # 0 THEN "pageSize" :> PyInt(p.page_size)
        ELSE EmptyDict)
    @@ (IF p.has_more THEN "hasMore" :> PyBool(TRUE) ELSE EmptyDict)
    @@ (IF p.next_cursor # "" THEN "nextCursor" :> PyStr(p.next_cursor)
        ELSE EmptyDict)
ExplainToDict(e) ==
    (IF e.estimated_cost # 0 THEN "estimatedCost" :> PyInt(e.estimated_cost)
     ELSE EmptyDict)
    @@ (IF e.recommendations # <<>>
        THEN "recommendations" :> e.recommendations
        ELSE EmptyDict)
MessageToDict(response) ==
    (IF response.results # <<>> THEN "results" :> response.results
     ELSE EmptyDict)
    @@ (IF response.pagination # Unset
        THEN "pagination" :> PageInfoToDict(response.pagination)
        ELSE EmptyDict)
    @@ (IF response.explain # Unset
        THEN "explain" :> ExplainToDict(response.explain)
        ELSE EmptyDict)

\* "query.pagination.page_size or 50" of _mock_response
MockPageSize(q) ==
    IF q.pagination # Unset /\ q.pagination.page_size # 0
    THEN q.pagination.page_size ELSE 50

\* QueryClient._mock_response: two rows, and always one more page
MockResponse(q) ==
    Response(<<"user_1", "user_2">>,
             PageInfo(100, MockPageSize(q), TRUE, "next_page_cursor_abc123"))

\* what the service may answer to a request carrying q
NextCursors == {"", "c1", "c2"}
StatusCodes ==
    {"INVALID_ARGUMENT", "NOT_FOUND", "PERMISSION_DENIED", "UNAUTHENTICATED",
     "DEADLINE_EXCEEDED", "RESOURCE_EXHAUSTED", "UNAVAILABLE", "INTERNAL",
     "CANCELLED"}
Details == {"bad field"}
ExplainBlocks == {ExplainBlock(0, <<>>), ExplainBlock(42, <<"add an index">>)}
ServerAnswers(q) ==
    {MockResponse(q), Response(<<>>, Unset)}
        \cup {Response(<<"user_1">>, PageInfo(0, 20, hm, nc)) :
                 hm \in BOOLEAN, nc \in NextCursors}
        \cup {Explained(Response(<<"user_1">>, PageInfo(0, 20, FALSE, "")),
                        block) : block \in ExplainBlocks}
        \cup {RpcError(code, d) : code \in StatusCodes, d \in Details}

\* an error table without the entry of DEADLINE_EXCEEDED
ErrorMessage_NoTimeout(code, details) ==
    CASE code = "INVALID_ARGUMENT" -> "Invalid query: " \o details
      [] code = "NOT_FOUND" -> "Entity not found: " \o details
      [] code = "PERMISSION_DENIED" -> "Access denied: " \o details
      [] code = "UNAUTHENTICATED" -> "Authentication required"
      [] code = "RESOURCE_EXHAUSTED" -> "Rate limit exceeded"
      [] code = "UNAVAILABLE" -> "Service unavailable"
      [] OTHER -> "Query failed: " \o details

\* QueryClient._handle_grpc_error: the message chosen for a status code
ErrorMessage(code, details) ==
    CASE code = "INVALID_ARGUMENT" -> "Invalid query: " \o details
      [] code = "NOT_FOUND" -> "Entity not found: " \o details
      [] code = "PERMISSION_DENIED" -> "Access denied: " \o details
      [] code = "UNAUTHENTICATED" -> "Authentication required"
      [] code = "DEADLINE_EXCEEDED" -> "Query timeout"
      [] code = "RESOURCE_EXHAUSTED" -> "Rate limit exceeded"
      [] code = "UNAVAILABLE" -> "Service unavailable"
      [] OTHER -> "Query failed: " \o details

\* QueryClient._handle_grpc_error: the line it prints; it raises nothing
HandleGrpcError(error) ==
    [code |-> error.code, message |-> ErrorMessage(error.code, error.details)]

\* what the except clause of execute_query raises after the handler
Reraise(error) == error

\* f"req_{datetime.utcnow().timestamp()}" for the clock reading now
RequestId(now) == "req_" \o ToString(now)

\* the metadata and the body of the request for q built at clock reading now
Request(self, q, now) ==
    [metadata |-> [tenant_id |-> self.tenant_id,
                   request_id |-> RequestId(now)],
     query |-> q]

\* execute_query without the test of self._stub
ExecuteQuery_NoGuard(self, q, answer, now) ==
    LET request == Request(self, q, now)
    IN  IF answer.kind = "RpcError"
        THEN [raised |-> Reraise(answer), value |-> None,
              sent |-> <<request>>,
              printed |-> <<HandleGrpcError(answer)>>]
        ELSE [raised |-> None, value |-> MessageToDict(answer),
              sent |-> <<request>>, printed |-> <<>>]

\* QueryClient.execute_query(q) when the clock reads now and the service
\* answers with answer: what is raised or returned, the request sent and
\* the line printed
ExecuteQuery(self, q, answer, now) ==
    IF ~AttrTruthy(self._stub)
    THEN [raised |-> RuntimeError("Not connected. Call connect() first."),
          value |-> None, sent |-> <<>>, printed |-> <<>>]
    ELSE LET request == Request(self, q, now)
         IN  IF answer.kind = "RpcError"
             THEN [raised |-> Reraise(answer), value |-> None,
                   sent |-> <<request>>,
                   printed |-> <<HandleGrpcError(answer)>>]
             ELSE [raised |-> None, value |-> MessageToDict(answer),
                   sent |-> <<request>>, printed |-> <<>>]

\* no client call in progress
Idle == [op |-> "idle"]
NoWire == [requests |-> <<>>, responses |-> <<>>, printed |-> <<>>, clock |-> 0]
NoCfg ==
    [projection |-> <<>>, search |-> <<>>, aggregation |-> <<>>,
     consistency |-> <<>>]

\* the client of the builder's runs: constructed and never used
ClientUnused ==
    /\ client = NewClient("localhost:50051", "tenant_123", 30)
    /\ theQuery = Query("users")
    /\ run = Idle
    /\ wire = NoWire

\* QueryClient.connect: opens the channel; the stub is not created
connect ==
    /\ run = Idle
    /\ client._channel = None
    /\ client' = [client EXCEPT !._channel = Channel(client.host)]
    /\ UNCHANGED <<b, heap, built, log, invoked, ncalls, arg, ret, cfg, runner,
                   theQuery, run, wire>>

\* the caller installs a service stub on the client
install_stub ==
    /\ run = Idle
    /\ client._stub = None
    /\ client' = [client EXCEPT !._stub = Stub]
    /\ UNCHANGED <<b, heap, built, log, invoked, ncalls, arg, ret, cfg, runner,
                   theQuery, run, wire>>

\* QueryClient.close
close ==
    /\ run = Idle
    /\ AttrTruthy(client._channel)
    /\ client._channel.open
    /\ client' = [client EXCEPT !._channel.open = FALSE]
    /\ UNCHANGED <<b, heap, built, log, invoked, ncalls, arg, ret, cfg, runner,
                   theQuery, run, wire>>

\* what datetime.utcnow() may read: the time of the last reading or later
ClockReadings == {wire.clock, wire.clock + 1}

\* the wire after one call of execute_query at clock reading now with
\* outcome r; the clock is read only when the metadata is built
Wired(r, now) ==
    [requests |-> wire.requests \o r.sent,
     responses |-> IF r.raised = None THEN Append(wire.responses, r.value)
                   ELSE wire.responses,
     printed |-> wire.printed \o r.printed,
     clock |-> IF r.sent # <<>> THEN now ELSE wire.clock]

\* one call execute_query(query) by the caller, on the caller's Query
execute_query ==
    /\ run = Idle
    /\ \E answer \in ServerAnswers(theQuery), now \in ClockReadings :
        LET r == ExecuteQuery(client, theQuery, answer, now)
        IN  /\ run' = [op |-> "execute_query", pc |-> "done",
                       given |-> theQuery, answer |-> answer,
                       returned |-> r.value, raised |-> r.raised]
            /\ wire' = Wired(r, now)
    /\ UNCHANGED <<b, heap, built, log, invoked, ncalls, arg, ret, cfg, runner,
                   client, theQuery>>

\* the call execute_paginated(query, max_pages): the generator is created
\* with page = 0 and cursor = None
execute_paginated ==
    /\ run = Idle
    /\ \E max_pages \in -1 .. MaxPages :
        run' = [op |-> "execute_paginated", pc |-> "loop",
                given |-> theQuery, max_pages |-> max_pages,
                page |-> 0, cursor |-> PyNone, raised |-> None]
    /\ UNCHANGED <<b, heap, built, log, invoked, ncalls, arg, ret, cfg, runner,
                   client, theQuery, wire>>

\* a loop test that lets one more page through
LoopTest_Inclusive(page, max_pages) == page <= max_pages

\* "while page < max_pages"
LoopTest(page, max_pages) == page < max_pages

\* the cursor is put into the query only when the query has none
SetCursor_KeepFirst(q, c) ==
    IF PyTruthy(c) /\ (q.pagination = Unset \/ q.pagination.cursor = "")
    THEN [q EXCEPT !.pagination =
             [(IF @ = Unset THEN Pagination(0) ELSE @) EXCEPT !.cursor = c.s]]
    ELSE q

\* "if cursor: query.pagination.cursor = cursor"
SetCursor(q, c) ==
    IF PyTruthy(c)
    THEN [q EXCEPT !.pagination =
             [(IF @ = Unset THEN Pagination(0) ELSE @) EXCEPT !.cursor = c.s]]
    ELSE q

\* a break test that needs both conditions
BreakTest_Both(c, pagination) ==
    ~PyTruthy(c) /\ ~PyTruthy(DictGet(pagination, "hasMore", PyNone))

\* "if not cursor or not pagination.get('hasMore'): break"
BreakTest(c, pagination) ==
    ~PyTruthy(c) \/ ~PyTruthy(DictGet(pagination, "hasMore", PyNone))

\* one pass of the loop up to its yield: the cursor is put into the query,
\* the query is executed and the response is yielded, or the error leaves
\* the generator
PaginatedFetch ==
    /\ run.op = "execute_paginated"
    /\ run.pc = "loop"
    /\ LoopTest(run.page, run.max_pages)
    /\ LET q == SetCursor(theQuery, run.cursor)
       IN  /\ theQuery' = q
           /\ \E answer \in ServerAnswers(q), now \in ClockReadings :
                LET r == ExecuteQuery(client, q, answer, now)
                IN  /\ wire' = Wired(r, now)
                    /\ run' = IF r.raised = None
                              THEN [run EXCEPT !.pc = "yielded"]
                              ELSE [run EXCEPT !.pc = "done",
                                               !.raised = r.raised]
    /\ UNCHANGED <<b, heap, built, log, invoked, ncalls, arg, ret, cfg, runner,
                   client>>

\* the loop test fails: the generator is exhausted
PaginatedExit ==
    /\ run.op = "execute_paginated"
    /\ run.pc = "loop"
    /\ ~LoopTest(run.page, run.max_pages)
    /\ run' = [run EXCEPT !.pc = "done"]
    /\ UNCHANGED <<b, heap, built, log, invoked, ncalls, arg, ret, cfg, runner,
                   client, theQuery, wire>>

\* the generator is resumed after its yield: the next cursor is taken from
\* the response and the loop breaks or goes on to the next page
PaginatedResume ==
    /\ run.op = "execute_paginated"
    /\ run.pc = "yielded"
    /\ LET response == wire.responses[Len(wire.responses)]
           pagination == DictGet(response, "pagination", EmptyDict)
           c == DictGet(pagination, "nextCursor", PyNone)
       IN  run' = IF BreakTest(c, pagination)
                  THEN [run EXCEPT !.cursor = c, !.pc = "done"]
                  ELSE [run EXCEPT !.cursor = c, !.pc = "loop",
                                   !.page = @ + 1]
    /\ UNCHANGED <<b, heap, built, log, invoked, ncalls, arg, ret, cfg, runner,
                   client, theQuery, wire>>

\* an explain_query that returns the whole response for the block
ExplainResult_WholeResponse(response) ==
    [value |-> response, printed |-> <<>>]

\* "if 'explain' in response: return response['explain']", else the
\* warning is printed and {} returned
ExplainResult(response) ==
    IF "explain" \in DOMAIN response
    THEN [value |-> response.explain, printed |-> <<>>]
    ELSE [value |-> EmptyDict,
          printed |-> <<[code |-> "Warning",
                         message |-> "Explain result not available"]>>]

\* "if not query.options.explain: query.options.explain = True"
SetExplain(q) ==
    IF q.options = Unset \/ ~q.options.explain
    THEN [q EXCEPT !.options =
             [(IF @ = Unset THEN QueryOptions ELSE @) EXCEPT !.explain = TRUE]]
    ELSE q

\* one call explain_query(query) by the caller, on the caller's Query
explain_query ==
    /\ run = Idle
    /\ LET q == SetExplain(theQuery)
       IN  /\ theQuery' = q
           /\ \E answer \in ServerAnswers(q), now \in ClockReadings :
                LET r == ExecuteQuery(client, q, answer, now)
                    w == Wired(r, now)
                    x == IF r.raised = None THEN ExplainResult(r.value)
                         ELSE [value |-> None, printed |-> <<>>]
                IN  /\ run' = [op |-> "explain_query", pc |-> "done",
                               given |-> theQuery, answer |-> answer,
                               returned |-> x.value, raised |-> r.raised]
                    /\ wire' = [w EXCEPT !.printed = @ \o x.printed]
    /\ UNCHANGED <<b, heap, built, log, invoked, ncalls, arg, ret, cfg, runner,
                   client>>

\* the Queries a caller hands to the client
CallerQueries ==
    {Query("users"),
     [Query("users") EXCEPT !.pagination = Pagination(20)],
     [Query("users") EXCEPT !.pagination =
         [Pagination(20) EXCEPT !.cursor = "c0"]],
     [Query("users") EXCEPT !.options =
         [QueryOptions EXCEPT !.explain = TRUE]]}

(***************************************************************************)
(* run_all: the runner of the example scripts.                             *)
(***************************************************************************)
\* main: the list of example files to run
example_files ==
    <<"basic_queries.py", "advanced_queries.py", "ecommerce_examples.py",
      "query_builder.py">>

\* the listed files that define a main() function
HasMain(file) ==
    file \in {"basic_queries.py", "advanced_queries.py",
              "ecommerce_examples.py"}

\* what a run can find of a listed file: it is missing, it has no loader, its
\* import (or its main) raises, one of the examples that its main() calls
\* raises, or it loads and all of its examples construct their queries
Conditions(file) ==
    {"missing", "no_loader", "raises", "ok"}
        \cup (IF HasMain(file) THEN {"example_fails"} ELSE {})

\* basic_queries.main (and the main of the other example scripts): each
\* example runs inside try/except, so a failed example is printed, not raised
ExampleMain(cond) ==
    [raised |-> None,
     printed |-> IF cond = "example_fails"
                 THEN <<"Error">>
                 ELSE <<"Query constructed successfully">>]

\* run_example_module: (success, error_message)
run_example_module(file, cond) ==
    CASE cond = "no_loader" ->
             [success |-> FALSE, error |-> "Could not load module"]
      [] cond = "raises" ->
             [success |-> FALSE, error |-> "No module named 'gen'"]
      [] ~HasMain(file) ->
             [success |-> FALSE, error |-> "No main() function found"]
      [] ExampleMain(cond).raised # None ->
             [success |-> FALSE, error |-> ExampleMain(cond).raised.message]
      [] OTHER -> [success |-> TRUE, error |-> ""]

\* run_all.main before its loop
RunnerStart ==
    [pc |-> "loop", results |-> <<>>, found |-> <<>>, failed |-> <<>>,
     status |-> None]

\* one iteration of "for example_file in example_files"
RunExample ==
    /\ runner.pc = "loop"
    /\ Len(runner.results) < Len(example_files)
    /\ LET file == example_files[Len(runner.results) + 1]
       IN  \E cond \in Conditions(file) :
               LET r == IF cond = "missing"
                        THEN [success |-> FALSE, error |-> "File not found"]
                        ELSE run_example_module(file, cond)
               IN  runner' =
                       [runner EXCEPT
                           !.results =
                               Append(@, [file |-> file,
                                          success |-> r.success,
                                          error |-> r.error]),
                           !.found = Append(@, cond)]
    /\ UNCHANGED <<b, heap, built, log, invoked, ncalls, arg, ret, cfg,
                   clientVars>>

\* the summary after the loop: the failed files are printed, and sys.exit
Summary ==
    /\ runner.pc = "loop"
    /\ Len(runner.results) = Len(example_files)
    /\ LET notPassed == SelectSeq(runner.results, LAMBDA r : ~r.success)
           passed == Len(runner.results) - Len(notPassed)
           total == Len(runner.results)
       IN  runner' =
               IF passed < total
               THEN [runner EXCEPT
                        !.pc = "exited",
                        !.failed = [i \in DOMAIN notPassed |->
                                       notPassed[i].file],
                        !.status = [code |-> 1]]
               ELSE [runner EXCEPT !.pc = "exited", !.status = [code |-> 0]]
    /\ UNCHANGED <<b, heap, built, log, invoked, ncalls, arg, ret, cfg,
                   clientVars>>

(***************************************************************************)
(* Specifications.                                                         *)
(***************************************************************************)
FreshHeap == [a \in Addrs |-> Free]

\* a builder for any entity, before its first call
Init ==
    /\ b \in {NewBuilder(e) : e \in Entities}
    /\ heap = FreshHeap
    /\ built = <<>>
    /\ log = <<>>
    /\ invoked = {}
    /\ ncalls = 0
    /\ arg = PyNone
    /\ ret = NotCalled
    /\ cfg = NoCfg
    /\ ClientUnused
    /\ runner = RunnerStart

\* a builder for the entity "users", before its first call
InitUsers ==
    /\ b = NewBuilder("users")
    /\ heap = FreshHeap
    /\ built = <<>>
    /\ log = <<>>
    /\ invoked = {}
    /\ ncalls = 0
    /\ arg = PyNone
    /\ ret = NotCalled
    /\ cfg = NoCfg
    /\ ClientUnused
    /\ runner = RunnerStart

\* the projection, pagination, search, aggregation and option methods
Next ==
    \/ include \/ exclude
    \/ limit \/ cursor \/ offset
    \/ search_fulltext \/ search_semantic
    \/ group_by \/ count \/ sum \/ avg \/ min \/ max
    \/ timeout \/ explain \/ count_total \/ consistency
    \/ Build

Spec == InitUsers /\ [][Next]_vars

\* the filter methods
NextFilter ==
    \/ filter_eq \/ filter_ne \/ filter_lt \/ filter_lte \/ filter_gt
    \/ filter_gte \/ filter_in \/ filter_not_in \/ filter_contains
    \/ filter_starts_with \/ filter_ends_with \/ filter_matches
    \/ filter_is_null \/ filter_is_not_null \/ filter_array_contains
    \/ Build

SpecFilter == InitUsers /\ [][NextFilter]_vars

\* the sorting methods
NextSort == sort_asc \/ sort_desc \/ Build

SpecSort == Init /\ [][NextSort]_vars

\* _to_proto_value applied to each operand
InitValue ==
    /\ b = NewBuilder("users")
    /\ heap = FreshHeap
    /\ built = <<>>
    /\ log = <<>>
    /\ invoked = {}
    /\ ncalls = 0
    /\ arg \in PyValues
    /\ ret = NotCalled
    /\ cfg = NoCfg
    /\ ClientUnused
    /\ runner = RunnerStart

NextValue == to_proto_value

SpecValue == InitValue /\ [][NextValue]_vars

\* a client before its first call, and the Query of its caller
InitClient ==
    /\ b = NewBuilder("users")
    /\ heap = FreshHeap
    /\ built = <<>>
    /\ log = <<>>
    /\ invoked = {}
    /\ ncalls = 0
    /\ arg = PyNone
    /\ ret = NotCalled
    /\ cfg = NoCfg
    /\ client \in {NewClient(h, t, s) :
                      h \in Hosts, t \in Tenants, s \in ClientTimeouts}
    /\ theQuery \in CallerQueries
    /\ run = Idle
    /\ wire = NoWire
    /\ runner = RunnerStart

NextClient ==
    \/ connect \/ install_stub \/ close
    \/ execute_query \/ explain_query
    \/ execute_paginated \/ PaginatedFetch \/ PaginatedExit \/ PaginatedResume

SpecClient == InitClient /\ [][NextClient]_vars

\* run_all.main, from its start to its exit
InitRunAll ==
    /\ b = NewBuilder("users")
    /\ heap = FreshHeap
    /\ built = <<>>
    /\ log = <<>>
    /\ invoked = {}
    /\ ncalls = 0
    /\ arg = PyNone
    /\ ret = NotCalled
    /\ cfg = NoCfg
    /\ ClientUnused
    /\ runner = RunnerStart

NextRunAll == RunExample \/ Summary

SpecRunAll == InitRunAll /\ [][NextRunAll]_vars

(***************************************************************************)
(* Vocabulary of the properties.                                           *)
(***************************************************************************)
FilterMethods ==
    {"filter_eq", "filter_ne", "filter_lt", "filter_lte", "filter_gt",
     "filter_gte", "filter_in", "filter_not_in", "filter_contains",
     "filter_starts_with", "filter_ends_with", "filter_matches",
     "filter_is_null", "filter_is_not_null", "filter_array_contains"}
SortMethods == {"sort_asc", "sort_desc"}
PaginationMethods == {"limit", "cursor", "offset"}
AggregationMethods == {"group_by", "count", "sum", "avg", "min", "max"}
ProjectionMethods == {"include", "exclude"}
SearchMethods == {"search_fulltext", "search_semantic"}
OptionMethods == {"timeout", "explain", "count_total", "consistency"}

\* the operator each filter method stands for
OperatorOf(m) ==
    CASE m = "filter_eq" -> "OPERATOR_EQ"
      [] m = "filter_ne" -> "OPERATOR_NE"
      [] m = "filter_lt" -> "OPERATOR_LT"
      [] m = "filter_lte" -> "OPERATOR_LTE"
      [] m = "filter_gt" -> "OPERATOR_GT"
      [] m = "filter_gte" -> "OPERATOR_GTE"
      [] m = "filter_in" -> "OPERATOR_IN"
      [] m = "filter_not_in" -> "OPERATOR_NOT_IN"
      [] m = "filter_contains" -> "OPERATOR_CONTAINS"
      [] m = "filter_starts_with" -> "OPERATOR_STARTS_WITH"
      [] m = "filter_ends_with" -> "OPERATOR_ENDS_WITH"
      [] m = "filter_matches" -> "OPERATOR_MATCHES"
      [] m = "filter_is_null" -> "OPERATOR_IS_NULL"
      [] m = "filter_is_not_null" -> "OPERATOR_IS_NOT_NULL"
      [] m = "filter_array_contains" -> "OPERATOR_ARRAY_CONTAINS"

\* the calls of the methods ms among the first n logged calls, in call order
CallsOf(ms, n) == SelectSeq(SubSeq(log, 1, n), LAMBDA c : c.m \in ms)

\* filter f is the filter that call c added
AddedBy(f, c) ==
    /\ f.kind = "condition"
    /\ f.condition.field = c.field
    /\ f.condition.operator = OperatorOf(c.m)
    /\ IF c.m \in {"filter_in", "filter_not_in"}
       THEN /\ f.condition.values = ToProtoValues(c.operands)
            /\ f.condition.value = Unset
       ELSE /\ f.condition.values = <<>>
            /\ f.condition.value =
                   IF Len(c.operands) = 1 THEN ToProtoValue(c.operands[1])
                   ELSE Unset

\* the filters a Query's filter field holds, as a list
FiltersOf(q) ==
    IF q.filter = Unset THEN <<>>
    ELSE IF q.filter.kind = "and_" THEN q.filter.conditions
    ELSE <<q.filter>>

IsPrefix(s, t) == Len(s) <= Len(t) /\ SubSeq(t, 1, Len(s)) = s

(***************************************************************************)
(* C1: build() shapes Query.filter by the number n of filters added: no    *)
(* filter for n = 0, the filter itself (no And wrapper) for n = 1, one And *)
(* of the n filters for n >= 2; an And never has fewer than 2 children.    *)
(***************************************************************************)
C1_FilterShape ==
    \A i \in DOMAIN built :
        LET q == built[i].snap
            calls == CallsOf(FilterMethods, built[i].nlog)
            n == Len(calls)
        IN  /\ n = 0 => q.filter = Unset
            /\ n = 1 => AddedBy(q.filter, calls[1])
            /\ n >= 2 => /\ q.filter # Unset
                         /\ q.filter.kind = "and_"
                         /\ Len(q.filter.conditions) = n
            /\ (q.filter # Unset /\ q.filter.kind = "and_")
                   => Len(q.filter.conditions) >= 2

\* a Query built after one filter call and a Query built after two
C1_Witness ==
    /\ \E i \in DOMAIN built :
           /\ Len(CallsOf(FilterMethods, built[i].nlog)) = 1
           /\ built[i].snap.filter.kind = "condition"
    /\ \E i \in DOMAIN built :
           /\ Len(CallsOf(FilterMethods, built[i].nlog)) = 2
           /\ built[i].snap.filter.kind = "and_"

(***************************************************************************)
(* C2: with two or more filters added, the children of the And are exactly *)
(* the added filters, one per filter-adding call, in call order, whichever *)
(* filter method added each.                                               *)
(***************************************************************************)
C2_AndChildrenInCallOrder ==
    \A i \in DOMAIN built :
        LET q == built[i].snap
            calls == CallsOf(FilterMethods, built[i].nlog)
        IN  Len(calls) >= 2 =>
                /\ q.filter # Unset
                /\ q.filter.kind = "and_"
                /\ Len(q.filter.conditions) = Len(calls)
                /\ \A k \in 1..Len(calls) :
                       AddedBy(q.filter.conditions[k], calls[k])

\* a Query built after filter_eq then filter_in: And[EQ, IN]
C2_Witness ==
    \E i \in DOMAIN built :
        LET calls == CallsOf(FilterMethods, built[i].nlog)
        IN  /\ Len(calls) = 2
            /\ calls[1].m = "filter_eq"
            /\ calls[2].m = "filter_in"
            /\ built[i].snap.filter.kind = "and_"
            /\ built[i].snap.filter.conditions[2].condition.operator
                   = "OPERATOR_IN"

(***************************************************************************)
(* C3: the default Pagination (page_size 50) is injected exactly when no   *)
(* pagination method was called and no aggregation was configured; with an *)
(* aggregation and no pagination call the Query has no pagination; when a  *)
(* pagination method was called the caller's pagination is used as set.    *)
(***************************************************************************)
C3_DefaultPagination ==
    \A i \in DOMAIN built :
        LET q == built[i].snap
            paged == built[i].invoked \cap PaginationMethods # {}
            aggregating == built[i].invoked \cap AggregationMethods # {}
        IN  /\ (~paged /\ ~aggregating)
                   <=> q.pagination = Pagination(DefaultPageSize)
            /\ (~paged /\ aggregating) <=> q.pagination = Unset
            /\ (paged /\ built[i].ncalls = ncalls)
                   => q.pagination = heap[b._pagination.addr]

\* an aggregating Query without pagination, and a later aggregating Query
\* that carries the caller's pagination
C3_Witness ==
    \E i, j \in DOMAIN built :
        /\ built[i].invoked \cap AggregationMethods # {}
        /\ built[i].invoked \cap PaginationMethods = {}
        /\ built[i].snap.pagination = Unset
        /\ built[j].invoked \cap AggregationMethods # {}
        /\ "limit" \in built[j].invoked
        /\ built[j].snap.pagination # Unset

(***************************************************************************)
(* C4: the Query's sort list equals the sequence of sort_asc/sort_desc     *)
(* calls in call order, one entry per call; entries are never reordered,   *)
(* merged or deduplicated, even when one field is sorted twice.            *)
(***************************************************************************)
C4_SortsVerbatim ==
    \A i \in DOMAIN built :
        LET q == built[i].snap
            calls == CallsOf(SortMethods, built[i].nlog)
        IN  /\ Len(q.sort) = Len(calls)
            /\ \A k \in 1..Len(calls) :
                   /\ q.sort[k].field = calls[k].field
                   /\ q.sort[k].direction =
                          (IF calls[k].m = "sort_asc" THEN "SORT_DIRECTION_ASC"
                           ELSE "SORT_DIRECTION_DESC")
                   /\ q.sort[k].nulls =
                          (CASE calls[k].operands = <<PyStr("first")>>
                                    -> "NULL_ORDERING_NULLS_FIRST"
                             [] calls[k].operands = <<PyStr("last")>>
                                    -> "NULL_ORDERING_NULLS_LAST"
                             [] OTHER -> "NULL_ORDERING_UNSPECIFIED")

\* a Query built after the same field was sorted twice, ascending then
\* descending: both entries are there, in that order
C4_Witness ==
    \E i \in DOMAIN built :
        LET q == built[i].snap
        IN  /\ Len(q.sort) = 2
            /\ q.sort[1].field = q.sort[2].field
            /\ q.sort[1].direction = "SORT_DIRECTION_ASC"
            /\ q.sort[2].direction = "SORT_DIRECTION_DESC"

(***************************************************************************)
(* C5: build() is idempotent: two build() calls with no builder call in    *)
(* between return structurally equal Query values.                         *)
(***************************************************************************)
C5_BuildIdempotent ==
    \A i, j \in DOMAIN built :
        built[i].ncalls = built[j].ncalls
            => Deep(built[i].query, heap) = Deep(built[j].query, heap)

\* two Queries built back to back from a builder that was configured
C5_Witness ==
    \E i, j \in DOMAIN built :
        /\ i < j
        /\ built[i].ncalls = built[j].ncalls
        /\ built[i].ncalls >= 1
        /\ built[i].query # built[j].query

(***************************************************************************)
(* C6: build() does not clear or alter builder state: calls made after a   *)
(* build() add to what was accumulated, and the next build() returns       *)
(* everything accumulated before plus the later additions, in order.       *)
(***************************************************************************)
C6_BuildKeepsState ==
    /\ Len(b._filters) = Len(CallsOf(FilterMethods, Len(log)))
    /\ \A i, j \in DOMAIN built :
           i < j =>
               /\ IsPrefix(FiltersOf(built[i].snap), FiltersOf(built[j].snap))
               /\ Len(FiltersOf(built[j].snap))
                      = Len(CallsOf(FilterMethods, built[j].nlog))

\* a filter, build(), another filter, build(): the second Query holds both
C6_Witness ==
    \E i, j \in DOMAIN built :
        /\ i < j
        /\ Len(FiltersOf(built[i].snap)) = 1
        /\ Len(FiltersOf(built[j].snap)) = 2
        /\ FiltersOf(built[j].snap)[1] = FiltersOf(built[i].snap)[1]

(***************************************************************************)
(* C7: a Query returned by build() is never changed by what is done to the *)
(* builder afterwards; Queries share no mutable state with each other or   *)
(* with the builder.                                                       *)
(***************************************************************************)
\* the heap addresses a Query's message fields refer to
RefsOf(q) == {q[f].addr : f \in {g \in RefFields : q[g] # Unset}}

C7_QueryUnaffectedByBuilder ==
    /\ \A i \in DOMAIN built :
           /\ Deep(built[i].query, heap) = built[i].snap
           /\ RefsOf(built[i].query) \cap {BuilderAddr(f) : f \in RefFields} = {}
    /\ \A i, j \in DOMAIN built :
           i # j => RefsOf(built[i].query) \cap RefsOf(built[j].query) = {}

\* a Query built after limit(), whose builder then had its pagination
\* changed by a later setter
C7_Witness ==
    \E i \in DOMAIN built :
        /\ built[i].ncalls < ncalls
        /\ "limit" \in built[i].invoked
        /\ "cursor" \in invoked \ built[i].invoked
        /\ heap[b._pagination.addr] # built[i].snap.pagination

ToUtc(dt) ==
    LET t == dt.hour * 60 + dt.minute - (IF dt.tz = "aware" THEN dt.off ELSE 0)
        shift == IF t < 0 THEN -1 ELSE IF t >= 1440 THEN 1 ELSE 0
        t2 == t - shift * 1440
    IN  [dt EXCEPT !.day = @ + shift, !.hour = t2 \div 60, !.minute = t2 % 60,
                   !.tz = "naive", !.off = 0]

C9_TimestampUtcZ ==
    (ret # NotCalled /\ arg.t = "datetime")
        => ret = StringValue(IsoFormat(ToUtc(arg)) \o "Z")

(***************************************************************************)
(* C10: in every built Query, options, projection, aggregation and search  *)
(* are each present iff one of the corresponding builder methods was       *)
(* invoked before build(); the relation list is empty unless a relation    *)
(* was added (the builder has no method that adds one); with none of them  *)
(* invoked all five are absent.                                            *)
(***************************************************************************)
C10_PresentIffInvoked ==
    \A i \in DOMAIN built :
        LET q == built[i].snap
            inv == built[i].invoked
        IN  /\ q.options # Unset <=> inv \cap OptionMethods # {}
            /\ q.projection # Unset <=> inv \cap ProjectionMethods # {}
            /\ q.aggregation # Unset <=> inv \cap AggregationMethods # {}
            /\ q.search # Unset <=> inv \cap SearchMethods # {}
            /\ q.relation = <<>>

\* a Query built with nothing invoked (all five absent) and a later Query
\* built after an option setter and a search method
C10_Witness ==
    \E i, j \in DOMAIN built :
        /\ built[i].invoked = {}
        /\ built[i].snap.options = Unset
        /\ built[i].snap.search = Unset
        /\ built[j].invoked \cap OptionMethods # {}
        /\ built[j].invoked \cap SearchMethods # {}
        /\ built[j].snap.options # Unset
        /\ built[j].snap.search # Unset
        /\ built[j].snap.projection = Unset

(***************************************************************************)
(* C11: Projection, Search and Aggregation are last-write-wins: when the   *)
(* methods configuring one of them are called more than once, the built    *)
(* Query holds only what the last such call configured and nothing set by  *)
(* the earlier calls.                                                      *)
(***************************************************************************)
\* what one projection call configures
ConfiguredProjection(call) ==
    IF call.m = "include" THEN Projection(call.fields, <<>>)
    ELSE Projection(<<>>, call.fields)

\* what one search call configures: type, text and fields
ConfiguredSearch(call) ==
    IF call.m = "search_fulltext"
    THEN [type |-> "SEARCH_TYPE_FULL_TEXT", query |-> call.query,
          fields |-> call.fields]
    ELSE [type |-> "SEARCH_TYPE_SEMANTIC", query |-> call.query,
          fields |-> <<>>]
SearchShown(search) ==
    [type |-> search.type, query |-> search.query, fields |-> search.fields]

\* the aggregate that one aggregate call asks for
ConfiguredAggregate(call) ==
    [function |-> call.function, field |-> call.field,
     alias |-> IF call.alias # "" THEN call.alias ELSE "result"]

\* the aggregation that one aggregation call configures on its own
ConfiguredAggregation(call) ==
    IF call.m = "group_by"
    THEN [Aggregation EXCEPT !.group_by = call.fields]
    ELSE [Aggregation EXCEPT !.aggregates = <<ConfiguredAggregate(call)>>]

\* the aggregation that a sequence of aggregation calls adds up to
RECURSIVE Accumulated(_)
Accumulated(calls) ==
    IF calls = <<>> THEN Aggregation
    ELSE LET before == Accumulated(SubSeq(calls, 1, Len(calls) - 1))
             call == calls[Len(calls)]
         IN  IF call.m = "group_by"
             THEN [before EXCEPT !.group_by = @ \o call.fields]
             ELSE [before EXCEPT
                      !.aggregates = Append(@, ConfiguredAggregate(call))]

\* projection and search of a built Query are those of the last call
LastProjectionAndSearch(e) ==
    /\ e.cfg.projection # <<>>
           => e.snap.projection = ConfiguredProjection(e.cfg.projection[1])
    /\ e.cfg.search # <<>>
           => SearchShown(e.snap.search) = ConfiguredSearch(e.cfg.search[1])

C12_IncludeXorExclude ==
    \A i \in DOMAIN built :
        LET p == built[i].snap.projection
        IN  p # Unset => ~(p.include # <<>> /\ p.exclude # <<>>)

\* a Query built after both include() and exclude() were called
C12_Witness ==
    \E i \in DOMAIN built :
        /\ {"include", "exclude"} \subseteq built[i].invoked
        /\ built[i].snap.projection # Unset
        /\ built[i].snap.projection.exclude # <<>>

(***************************************************************************)
(* C13: an empty entity name is a construction error raised no later than  *)
(* build(): the builder never produces a Query whose entity is empty.      *)
(***************************************************************************)
C13_EntityNonEmpty ==
    \A i \in DOMAIN built : built[i].snap.entity # ""

(***************************************************************************)
(* C14: in every Query produced by the builder the aliases of the          *)
(* aggregation's aggregates are pairwise distinct; a call that would       *)
(* introduce an already-used alias is rejected.                            *)
(***************************************************************************)
C14_AliasesDistinct ==
    \A i \in DOMAIN built :
        LET a == built[i].snap.aggregation
        IN  a # Unset
                => \A j, k \in DOMAIN a.aggregates :
                       j # k => a.aggregates[j].alias # a.aggregates[k].alias

(***************************************************************************)
(* Vocabulary of the client properties.                                    *)
(***************************************************************************)
Paginating == run.op = "execute_paginated"

\* the pagination echo of a response dictionary
EchoOf(response) == DictGet(response, "pagination", EmptyDict)
HasMore(response) == PyTruthy(DictGet(EchoOf(response), "hasMore", PyNone))
HasCursor(response) ==
    PyTruthy(DictGet(EchoOf(response), "nextCursor", PyNone))

\* the cursor a request carries, None when its Query has no pagination
CursorOf(q) ==
    IF q.pagination = Unset THEN PyNone ELSE PyStr(q.pagination.cursor)

Max0(n) == IF n > 0 THEN n ELSE 0

(***************************************************************************)
(* C15: for every max_pages and every sequence of server responses,        *)
(* execute_paginated issues at most max_pages requests, yields at most     *)
(* max_pages pages and then terminates; with max_pages <= 0 it issues no   *)
(* request.  Termination: the loop is entered only with as many requests   *)
(* issued as pages counted, and pages counted stay below max_pages.        *)
(***************************************************************************)
C15_AtMostMaxPages ==
    Paginating =>
        /\ Len(wire.requests) <= Max0(run.max_pages)
        /\ Len(wire.responses) <= Max0(run.max_pages)
        /\ run.pc = "loop" => Len(wire.requests) = run.page
        /\ run.pc = "yielded" =>
               /\ Len(wire.requests) = run.page + 1
               /\ run.page < run.max_pages

\* a run that ended after max_pages pages of a service that answered every
\* request with has_more and the same cursor
C15_Witness ==
    /\ Paginating
    /\ run.pc = "done"
    /\ run.raised = None
    /\ run.max_pages >= 2
    /\ Len(wire.requests) = run.max_pages
    /\ Len(wire.responses) = run.max_pages
    /\ \A k \in DOMAIN wire.responses :
           /\ HasMore(wire.responses[k])
           /\ DictGet(EchoOf(wire.responses[k]), "nextCursor", PyNone)
                  = PyStr("next_page_cursor_abc123")

(***************************************************************************)
(* C16: execute_paginated issues no further request after yielding a       *)
(* response whose has_more is false or whose next_cursor is absent or      *)
(* empty, however large max_pages is.                                      *)
(***************************************************************************)
C16_NoRequestAfterLastPage ==
    Paginating =>
        \A k \in DOMAIN wire.responses :
            (~HasMore(wire.responses[k]) \/ ~HasCursor(wire.responses[k]))
                => Len(wire.requests) = k

\* a run that ended after a first page that had a cursor but no has_more,
\* with pages left
C16_Witness ==
    /\ Paginating
    /\ run.pc = "done"
    /\ run.max_pages >= 2
    /\ Len(wire.responses) = 1
    /\ ~HasMore(wire.responses[1])
    /\ HasCursor(wire.responses[1])
    /\ Len(wire.requests) = 1

(***************************************************************************)
(* C17: when a page response reports has_more = true but carries no usable *)
(* next_cursor, execute_paginated stops iterating by raising a distinct    *)
(* pagination-protocol error.                                              *)
(***************************************************************************)
C17_ProtocolErrorRaised ==
    (/\ Paginating
     /\ run.pc = "done"
     /\ wire.responses # <<>>
     /\ HasMore(wire.responses[Len(wire.responses)])
     /\ ~HasCursor(wire.responses[Len(wire.responses)]))
        => /\ run.raised # None
           /\ run.raised.kind \notin {"RpcError", "RuntimeError"}

(***************************************************************************)
(* C18: in one execute_paginated run the cursor carried by request k+1     *)
(* equals, unmodified, the next_cursor of response k for every k >= 1, and *)
(* the first request carries exactly the cursor (or absence of one) that   *)
(* the caller's Query had.                                                 *)
(***************************************************************************)
C18_CursorThreaded ==
    Paginating =>
        /\ wire.requests # <<>> =>
               wire.requests[1].query.pagination = run.given.pagination
        /\ \A k \in DOMAIN wire.requests :
               k > 1 =>
                   CursorOf(wire.requests[k].query)
                       = DictGet(EchoOf(wire.responses[k - 1]), "nextCursor",
                                 PyNone)

\* a second request sent for a Query that came with a cursor of its own
C18_Witness ==
    /\ Paginating
    /\ Len(wire.requests) >= 2
    /\ run.given.pagination # Unset
    /\ run.given.pagination.cursor = "c0"
    /\ CursorOf(wire.requests[2].query) = PyStr("c1")

(***************************************************************************)
(* C19: a transport error raised while a query is executed is never        *)
(* swallowed by execute_query: it reaches the caller re-raised as the      *)
(* mapped domain error kind, with the original message preserved.          *)
(***************************************************************************)
C19_MappedErrorRaised ==
    (/\ run.op = "execute_query"
     /\ AttrTruthy(client._stub)
     /\ run.answer.kind = "RpcError")
        => /\ run.raised # None
           /\ run.raised.kind # "RpcError"
           /\ run.raised.message
                  = ErrorMessage(run.answer.code, run.answer.details)

(***************************************************************************)
(* C20: the client's error mapping classifies every transport status code  *)
(* into exactly one domain kind: invalid-argument -> malformed query;      *)
(* not-found -> unknown entity; permission-denied and unauthenticated ->   *)
(* the same access-error kind; deadline-exceeded -> timeout (distinct from *)
(* generic failure); resource-exhausted -> rate-limited; unavailable ->    *)
(* transient service error; every other code -> generic execution failure  *)
(* carrying the raw message.                                               *)
(***************************************************************************)
\* the fixed texts of the messages; a message is classified by its text
FixedTexts ==
    {"Invalid query: ", "Entity not found: ", "Access denied: ",
     "Authentication required", "Query timeout", "Rate limit exceeded",
     "Service unavailable", "Query failed: "}
MessageKind(message) ==
    CHOOSE text \in FixedTexts :
        \E d \in Details \cup {""} : message = text \o d

\* the kinds of the claim
ClaimedKind(code) ==
    CASE code = "INVALID_ARGUMENT" -> "malformed query"
      [] code = "NOT_FOUND" -> "unknown entity"
      [] code \in {"PERMISSION_DENIED", "UNAUTHENTICATED"} -> "access error"
      [] code = "DEADLINE_EXCEEDED" -> "timeout"
      [] code = "RESOURCE_EXHAUSTED" -> "rate-limited"
      [] code = "UNAVAILABLE" -> "transient service error"
      [] OTHER -> "generic execution failure"

\* the same with permission-denied and unauthenticated kept apart
DistinctKind(code) ==
    CASE code = "PERMISSION_DENIED" -> "access denied"
      [] code = "UNAUTHENTICATED" -> "authentication required"
      [] OTHER -> ClaimedKind(code)

\* the line printed for the transport error classifies its code as kindOf
\* does: two codes get messages of one text exactly when they are of one
\* kind, and the generic message carries the raw details
Classifies(kindOf(_)) ==
    (run.op = "execute_query" /\ wire.printed # <<>>) =>
        LET line == wire.printed[1]
            error == run.answer
        IN  /\ line.code = error.code
            /\ \A c \in StatusCodes, d \in Details :
                   kindOf(error.code) = kindOf(c)
                       <=> MessageKind(line.message)
                               = MessageKind(ErrorMessage(c, d))
            /\ kindOf(error.code) = "generic execution failure"
                   => line.message = "Query failed: " \o error.details

ExplainWarning ==
    [code |-> "Warning", message |-> "Explain result not available"]

C21_ExplainOrEmpty ==
    (/\ run.op = "explain_query"
     /\ AttrTruthy(client._stub)
     /\ run.answer.kind = "response")
        => /\ run.raised = None
           /\ run.answer.explain # Unset
                  => /\ run.returned = ExplainToDict(run.answer.explain)
                     /\ wire.printed = <<>>
           /\ run.answer.explain = Unset
                  => /\ run.returned = EmptyDict
                     /\ wire.printed = <<ExplainWarning>>

\* a call answered with an explain block, and one answered without
C21_Witness ==
    /\ run.op = "explain_query"
    /\ AttrTruthy(client._stub)
    /\ run.answer.kind = "response"
    /\ run.answer.explain = Unset
    /\ run.returned = EmptyDict
    /\ wire.printed # <<>>

(***************************************************************************)
(* C22: every request the client issues is accompanied, outside the Query  *)
(* body, by the client's tenant identifier and by a correlation identifier *)
(* that differs from the identifier of every other request issued,         *)
(* including two requests issued within the same clock reading.            *)
(***************************************************************************)
C22_UniqueRequestIds ==
    /\ \A k \in DOMAIN wire.requests :
           wire.requests[k].metadata.tenant_id = client.tenant_id
    /\ \A j, k \in DOMAIN wire.requests :
           j # k => wire.requests[j].metadata.request_id
                        # wire.requests[k].metadata.request_id

(***************************************************************************)
(* C23: once connect() has been called on a QueryClient (and before        *)
(* close()), execute_query(query) returns a response dictionary with       *)
(* results and pagination instead of failing with the not-connected error. *)
(***************************************************************************)
C23_ConnectedClientExecutes ==
    (/\ run.op = "execute_query"
     /\ AttrTruthy(client._channel)
     /\ client._channel.open
     /\ run.answer = MockResponse(run.given))
        => /\ run.raised = None
           /\ {"results", "pagination"} \subseteq DOMAIN run.returned

(***************************************************************************)
(* C24: client operations leave the caller's Query unchanged: the caller's *)
(* Query is equal before and after execute_paginated and explain_query.    *)
(***************************************************************************)
C24_QueryUnchanged ==
    run.op \in {"execute_paginated", "explain_query"} => theQuery = run.given

(***************************************************************************)
(* C28: execute_query called on a client that has no service stub fails    *)
(* with a "Not connected" RuntimeError before any request metadata is      *)
(* built or any request is issued, and leaves the client and the query     *)
(* unchanged.                                                              *)
(***************************************************************************)
C28_NotConnected ==
    [][(/\ run = Idle
        /\ run'.op = "execute_query"
        /\ ~AttrTruthy(client._stub))
           => /\ run'.raised
                     = RuntimeError("Not connected. Call connect() first.")
              /\ run'.returned = None
              /\ wire' = wire
              /\ client' = client
              /\ theQuery' = theQuery]_vars

\* a failed call on a client that was connected but has no stub
C28_Witness ==
    /\ run.op = "execute_query"
    /\ ~AttrTruthy(client._stub)
    /\ AttrTruthy(client._channel)
    /\ run.raised # None
    /\ run.raised.kind = "RuntimeError"
    /\ wire.requests = <<>>

(***************************************************************************)
(* C25: every Condition created by a builder filter method has operand     *)
(* arity matching its operator: IN and NOT_IN carry a value list and no    *)
(* single value; IS_NULL and IS_NOT_NULL carry no operand; every other     *)
(* operator carries exactly one value (a null operand still counts as one  *)
(* value of the null variant).                                             *)
(***************************************************************************)
ListOperators == {"OPERATOR_IN", "OPERATOR_NOT_IN"}
NullaryOperators == {"OPERATOR_IS_NULL", "OPERATOR_IS_NOT_NULL"}

C25_OperandArity ==
    \A k \in DOMAIN b._filters :
        LET c == b._filters[k].condition
            call == CallsOf(FilterMethods, Len(log))[k]
        IN  /\ c.operator = OperatorOf(call.m)
            /\ c.operator \in ListOperators
                   => /\ c.value = Unset
                      /\ Len(c.values) = Len(call.operands)
                      /\ \A i \in DOMAIN c.values : c.values[i] # Unset
            /\ c.operator \in NullaryOperators
                   => c.value = Unset /\ c.values = <<>>
            /\ c.operator \notin ListOperators \cup NullaryOperators
                   => /\ c.value # Unset
                      /\ c.value.kind \in ValueKinds
                      /\ c.values = <<>>
                      /\ call.operands = <<PyNone>> => c.value = NullValue

\* a builder holding the condition of filter_eq(field, None) and the
\* condition of an IN or NOT_IN call
C25_Witness ==
    \E j, k \in DOMAIN b._filters :
        /\ b._filters[j].condition.operator = "OPERATOR_EQ"
        /\ b._filters[j].condition.value = NullValue
        /\ b._filters[k].condition.operator \in ListOperators
        /\ Len(b._filters[k].condition.values) = 2

(***************************************************************************)
(* C26: every Query produced by the builder that carries a Pagination has  *)
(* page_size >= 1 and offset >= 0, for every sequence of limit/cursor/     *)
(* offset calls (including cursor() or offset() called without limit(),    *)
(* and limit() called with 0 or a negative number).                        *)
(***************************************************************************)
C26_PageSizePositive ==
    \A i \in DOMAIN built :
        LET p == built[i].snap.pagination
        IN  p # Unset => p.page_size >= 1 /\ p.offset >= 0

(***************************************************************************)
(* C27: each pagination setter (limit, cursor, offset) and each option     *)
(* setter (timeout, explain, count_total, consistency) overwrites only its *)
(* own field: fields set by earlier calls of the other setters are         *)
(* retained in the built Query, and no setter touches filters, sorts,      *)
(* projection, aggregation or search.                                      *)
(***************************************************************************)
\* the builder's pagination and options as the next setter finds them
PaginationOf(self, h) ==
    IF self._pagination = None THEN Pagination(0) ELSE h[self._pagination.addr]
OptionsOf(self, h) ==
    IF self._options = None THEN QueryOptions ELSE h[self._options.addr]

\* the Query that build() would return for the builder self
WouldBuild(self, h) ==
    LET r == BuildQuery(self, h, 1) IN Deep(r.query, r.heap)

\* a step changes at most the field own of the builder's message of kind
\* family, and nothing else that build() copies
OnlyOwnField(family, own) ==
    LET q == WouldBuild(b, heap)
        q2 == WouldBuild(b', heap')
    IN  /\ \A f \in {"page_size", "cursor", "offset"} :
               (family = "pagination" /\ f = own)
                   \/ PaginationOf(b', heap')[f] = PaginationOf(b, heap)[f]
        /\ \A f \in {"timeout_ms", "explain", "count_total", "consistency"} :
               (family = "options" /\ f = own)
                   \/ OptionsOf(b', heap')[f] = OptionsOf(b, heap)[f]
        /\ family = "pagination" => q2.options = q.options
        /\ family = "options" => q2.pagination = q.pagination
        /\ q2.filter = q.filter
        /\ q2.sort = q.sort
        /\ q2.projection = q.projection
        /\ q2.aggregation = q.aggregation
        /\ q2.search = q.search
        /\ q2.entity = q.entity

C27_SettersOverwriteOwnField ==
    [][/\ limit => OnlyOwnField("pagination", "page_size")
       /\ cursor => OnlyOwnField("pagination", "cursor")
       /\ offset => OnlyOwnField("pagination", "offset")
       /\ timeout => OnlyOwnField("options", "timeout_ms")
       /\ explain => OnlyOwnField("options", "explain")
       /\ count_total => OnlyOwnField("options", "count_total")
       /\ consistency => OnlyOwnField("options", "consistency")]_vars

\* a Query built after limit() and then cursor(), holding both settings
C27_Witness ==
    \E i \in DOMAIN built :
        /\ built[i].invoked = {"limit", "cursor"}
        /\ built[i].snap.pagination.page_size = 20
        /\ built[i].snap.pagination.cursor = "c1"

(***************************************************************************)
(* C29: consistency(level) sets the consistency option to EVENTUAL, STRONG *)
(* or LINEARIZABLE for the strings "eventual", "strong", "linearizable"    *)
(* respectively, and for any other string sets STRONG without raising an   *)
(* error.                                                                  *)
(***************************************************************************)
C29_ConsistencyLevels ==
    \A i \in DOMAIN built :
        LET e == built[i]
        IN  e.cfg.consistency # <<>> =>
                LET level == e.cfg.consistency[1].level
                    set == e.snap.options.consistency
                IN  /\ level = "eventual" => set = "CONSISTENCY_LEVEL_EVENTUAL"
                    /\ level = "strong" => set = "CONSISTENCY_LEVEL_STRONG"
                    /\ level = "linearizable"
                           => set = "CONSISTENCY_LEVEL_LINEARIZABLE"
                    /\ level \notin {"eventual", "strong", "linearizable"}
                           => set = "CONSISTENCY_LEVEL_STRONG"

\* a Query built after consistency("serializable")
C29_Witness ==
    \E i \in DOMAIN built :
        /\ built[i].cfg.consistency # <<>>
        /\ built[i].cfg.consistency[1].level = "serializable"
        /\ built[i].snap.options.consistency = "CONSISTENCY_LEVEL_STRONG"

(***************************************************************************)
(* C30: run_all attempts every listed example file even after an earlier   *)
(* one failed, reports failure (exit status 1, with the failed files       *)
(* listed) whenever any example in a listed file fails to construct its    *)
(* query or any listed file is missing or cannot be run, and reports       *)
(* success (exit status 0) only when all examples in all listed files ran  *)
(* without error.                                                          *)
(***************************************************************************)
\* the positions of the listed files that a run did not find in order
NotOk == {i \in DOMAIN runner.found : runner.found[i] # "ok"}

C30_RunAllReports ==
    runner.pc = "exited" =>
        /\ [i \in DOMAIN runner.results |-> runner.results[i].file]
               = example_files
        /\ NotOk # {} =>
               /\ runner.status = [code |-> 1]
               /\ \A i \in NotOk :
                      \E k \in DOMAIN runner.failed :
                          runner.failed[k] = example_files[i]
        /\ runner.status = [code |-> 0] => NotOk = {}

====
